---- MODULE Spec2Model ----
(***************************************************************************)
(* Seat booking API (src/server.js): an in-memory store of seats, each      *)
(* available, locked (by a user, until lockExpiresAt, with an expiry timer) *)
(* or booked.  Every route handler and every timer callback runs to         *)
(* completion on the single JavaScript thread, so each is one atomic step.  *)
(***************************************************************************)
EXTENDS Integers, FiniteSets, Sequences, TLC

(* ------------------------------ bounds -------------------------------- *)
\* Number of seats kept by the model (the store holds independent records).
TOTAL_SEATS == 2
\* How many later readings the clock of the model can take (see InstantAt).
MaxTicks == 4

(* ------------------------- program constants -------------------------- *)
LOCK_TTL == 60000
\* The "slight buffer" added to LOCK_TTL in the setTimeout delay.
TimerBuffer == 50

\* A missing property of a seat object (lockedBy, lockExpiresAt, timeoutId).
NoUser == "<undefined>"
Undefined == -1
NoTimer == <<0, 0>>

\* JavaScript truthiness of a numeric-or-missing property.
Truthy(x) == x # Undefined /\ x # 0

(* ------------------------------ inputs -------------------------------- *)
SeatIds == 1..TOTAL_SEATS
\* Number(req.params.id): the seats, and an id the store has no seat for.
ReqIds == 1..(TOTAL_SEATS + 1)
Users == {"A", "B"}
\* req.query.user: a user name, or absent.
Absent == ""
QueryUsers == Users
\* The callers of the lock races: a third identity, the default one.
RaceQueryUsers == Users \cup {Absent}
\* String(req.query.user || 'anonymous')
UserOf(q) == IF q = Absent THEN "anonymous" ELSE q

\* Readings of Date.now() the model lets the clock take: 0, and around each
\* multiple k of LOCK_TTL the instants k*LOCK_TTL - 1, k*LOCK_TTL (a lock
\* taken at (k-1)*LOCK_TTL expires) and k*LOCK_TTL + TimerBuffer (its timer
\* is due).
InstantAt(i) ==
  IF i = 0 THEN 0
  ELSE LET k == (i + 2) \div 3
           o == (i - 1) % 3
       IN  k * LOCK_TTL + (IF o = 0 THEN -1 ELSE IF o = 1 THEN 0 ELSE TimerBuffer)
Instants == {InstantAt(i) : i \in 0..MaxTicks}

(* ------------------------------- state -------------------------------- *)
VARIABLES
  seats,    \* seats[id]: the seat object stored under id
  timers,   \* pending setTimeout entries: [id, seatId, due]
  clock,    \* Date.now()
  res,      \* the response sent by the last step ([op |-> "none"] if none)
  burst,    \* history: the current run of same-instant lock requests on one seat
  sc,       \* history: progress of the reference scenario on seats 1 and 2
  lastExpiry \* history: per seat, the lockExpiresAt of its latest acquisition

vars == <<seats, timers, clock, res, burst, sc, lastExpiry>>

(* --------------------------- seat objects ----------------------------- *)
\* { status: 'available' }
AvailableSeat ==
  [status |-> "available", lockedBy |-> NoUser, lockExpiresAt |-> Undefined,
   timeoutId |-> NoTimer]

\* { status: 'booked' }
BookedSeat ==
  [status |-> "booked", lockedBy |-> NoUser, lockExpiresAt |-> Undefined,
   timeoutId |-> NoTimer]

\* { status: 'locked', lockedBy: user, lockExpiresAt }
LockedSeat(user, lockExpiresAt) ==
  [status |-> "locked", lockedBy |-> user, lockExpiresAt |-> lockExpiresAt,
   timeoutId |-> NoTimer]

\* seats[id] is undefined for every id that is not a key of the store.
Exists(ss, id) == id \in DOMAIN ss

(* ------------------------------ timers -------------------------------- *)
\* clearSeatTimer: clearTimeout(seat.timeoutId) on the pending timers.
ClearSeatTimer(ts, seat) ==
  IF seat.timeoutId # NoTimer
    THEN {t \in ts : t.id # seat.timeoutId}
    ELSE ts

\* The Timeout object setTimeout returns: a handle no pending timer and no
\* seat object holds, written <<seatId, n>> with the least n that is free.
FreshTimerId(ss, ts, seatId) ==
  LET used == {t.id : t \in ts} \cup {ss[s].timeoutId : s \in DOMAIN ss}
      n    == CHOOSE k \in 1..(Cardinality(used) + 1) :
                /\ <<seatId, k>> \notin used
                /\ \A g \in 1..(k - 1) : <<seatId, g>> \in used
  IN  <<seatId, n>>

\* A delay that falls short of LOCK_TTL by the buffer instead of exceeding it.
TimerDelayShort == LOCK_TTL - TimerBuffer

\* The delay armSeatExpiry passes to setTimeout.
TimerDelay == LOCK_TTL + TimerBuffer

\* armSeatExpiry(seatId) on store ss and pending timers ts at instant now:
\* the pair <<store, timers>> it leaves.
ArmSeatExpiry(ss, ts, seatId, now) ==
  LET seat    == ss[seatId]
      cleared == ClearSeatTimer(ts, seat)
      h       == FreshTimerId(ss, cleared, seatId)
  IN  <<[ss EXCEPT ![seatId] = [seat EXCEPT !.timeoutId = h]],
        cleared \cup {[id |-> h, seatId |-> seatId, due |-> now + TimerDelay]}>>

\* The test of lines 39 and 68: locked, with an expiry instant that has passed.
LockedAndExpired(seat, now) ==
  /\ seat.status = "locked"
  /\ Truthy(seat.lockExpiresAt)
  /\ seat.lockExpiresAt <= now

(* ----------------------------- responses ------------------------------ *)
NoView == [i \in {} |-> [status |-> "available"]]
\* The step taken last: a request (op, id, user) with the HTTP status, the
\* message and, for GET /seats, the view sent; "expire" for an expiry callback
\* on seat id, with the user whose lock it reclaimed; "none" when time passed.
NoRes ==
  [op |-> "none", id |-> 0, user |-> NoUser, status |-> 0, msg |-> "",
   view |-> NoView]
Response(op, id, user, status, msg) ==
  [op |-> op, id |-> id, user |-> user, status |-> status, msg |-> msg,
   view |-> NoView]

(* ------------------------------ handlers ------------------------------ *)
\* Each handler is given the store, the pending timers, the request and the
\* reading of Date.now(); it yields the store and timers it leaves and the
\* HTTP status and message it sends.
Outcome(ss, ts, status, msg) ==
  [seats |-> ss, timers |-> ts, status |-> status, msg |-> msg]

\* POST /lock/:id without the test of lines 77-79 (a locked seat is taken over).
LockHandlerNoLockedTest(ss, ts, id, user, now) ==
  IF ~Exists(ss, id) THEN Outcome(ss, ts, 404, "does not exist")
  ELSE IF ss[id].status = "booked" THEN Outcome(ss, ts, 409, "already booked")
  ELSE
    LET ss2   == [ss EXCEPT ![id] = LockedSeat(user, now + LOCK_TTL)]
        armed == ArmSeatExpiry(ss2, ts, id, now)
    IN  Outcome(armed[1], armed[2], 200, "locked successfully")

\* POST /lock/:id storing a locked seat under an id the store does not have.
LockHandlerCreatesSeat(ss, ts, id, user, now) ==
  IF ~Exists(ss, id)
    THEN Outcome([i \in DOMAIN ss \cup {id} |->
                    IF i = id THEN LockedSeat(user, now + LOCK_TTL) ELSE ss[i]],
                 ts, 200, "locked successfully")
  ELSE
    LET seat == ss[id]
        lazy == LockedAndExpired(seat, now)
        ts1  == IF lazy THEN ClearSeatTimer(ts, seat) ELSE ts
        ss1  == IF lazy THEN [ss EXCEPT ![id] = AvailableSeat] ELSE ss
    IN  IF ss1[id].status = "booked" THEN Outcome(ss1, ts1, 409, "already booked")
        ELSE IF ss1[id].status = "locked" THEN Outcome(ss1, ts1, 423, "already locked")
        ELSE
          LET ss2   == [ss1 EXCEPT ![id] = LockedSeat(user, now + LOCK_TTL)]
              armed == ArmSeatExpiry(ss2, ts1, id, now)
          IN  Outcome(armed[1], armed[2], 200, "locked successfully")

\* POST /lock/:id letting the holder of an unexpired lock take it anew.
LockHandlerHolderRenews(ss, ts, id, user, now) ==
  IF ~Exists(ss, id) THEN Outcome(ss, ts, 404, "does not exist")
  ELSE
    LET seat == ss[id]
        lazy == LockedAndExpired(seat, now) \/ (seat.status = "locked" /\ seat.lockedBy = user)
        ts1  == IF lazy THEN ClearSeatTimer(ts, seat) ELSE ts
        ss1  == IF lazy THEN [ss EXCEPT ![id] = AvailableSeat] ELSE ss
    IN  IF ss1[id].status = "booked" THEN Outcome(ss1, ts1, 409, "already booked")
        ELSE IF ss1[id].status = "locked" THEN Outcome(ss1, ts1, 423, "already locked")
        ELSE
          LET ss2   == [ss1 EXCEPT ![id] = LockedSeat(user, now + LOCK_TTL)]
              armed == ArmSeatExpiry(ss2, ts1, id, now)
          IN  Outcome(armed[1], armed[2], 200, "locked successfully")

\* POST /lock/:id
LockHandler(ss, ts, id, user, now) ==
  IF ~Exists(ss, id) THEN Outcome(ss, ts, 404, "does not exist")
  ELSE
    LET seat == ss[id]
        lazy == LockedAndExpired(seat, now)
        ts1  == IF lazy THEN ClearSeatTimer(ts, seat) ELSE ts
        ss1  == IF lazy THEN [ss EXCEPT ![id] = AvailableSeat] ELSE ss
    IN  IF ss1[id].status = "booked" THEN Outcome(ss1, ts1, 409, "already booked")
        ELSE IF ss1[id].status = "locked" THEN Outcome(ss1, ts1, 423, "already locked")
        ELSE
          LET lockExpiresAt == now + LOCK_TTL
              ss2   == [ss1 EXCEPT ![id] = LockedSeat(user, lockExpiresAt)]
              armed == ArmSeatExpiry(ss2, ts1, id, now)
          IN  Outcome(armed[1], armed[2], 200, "locked successfully")

\* POST /confirm/:id without the owner test of lines 111-113.
ConfirmHandlerNoOwnerTest(ss, ts, id, user, now) ==
  IF ~Exists(ss, id) THEN Outcome(ss, ts, 404, "does not exist")
  ELSE
    LET seat == ss[id]
    IN  IF seat.status # "locked" THEN Outcome(ss, ts, 400, "not locked")
        ELSE IF Truthy(seat.lockExpiresAt) /\ seat.lockExpiresAt <= now
          THEN Outcome([ss EXCEPT ![id] = AvailableSeat], ClearSeatTimer(ts, seat),
                       408, "lock expired")
        ELSE Outcome([ss EXCEPT ![id] = BookedSeat], ClearSeatTimer(ts, seat),
                     200, "booked successfully")

\* POST /confirm/:id with lockExpiresAt < now for the test of line 105.
ConfirmHandlerStrictExpiry(ss, ts, id, user, now) ==
  IF ~Exists(ss, id) THEN Outcome(ss, ts, 404, "does not exist")
  ELSE
    LET seat == ss[id]
    IN  IF seat.status # "locked" THEN Outcome(ss, ts, 400, "not locked")
        ELSE IF Truthy(seat.lockExpiresAt) /\ seat.lockExpiresAt < now
          THEN Outcome([ss EXCEPT ![id] = AvailableSeat], ClearSeatTimer(ts, seat),
                       408, "lock expired")
        ELSE IF seat.lockedBy # user THEN Outcome(ss, ts, 403, "locked by another user")
        ELSE Outcome([ss EXCEPT ![id] = BookedSeat], ClearSeatTimer(ts, seat),
                     200, "booked successfully")

\* POST /confirm/:id booking by seat.status = 'booked' on the seat object.
ConfirmHandlerKeepsLock(ss, ts, id, user, now) ==
  IF ~Exists(ss, id) THEN Outcome(ss, ts, 404, "does not exist")
  ELSE
    LET seat == ss[id]
    IN  IF seat.status # "locked" THEN Outcome(ss, ts, 400, "not locked")
        ELSE IF Truthy(seat.lockExpiresAt) /\ seat.lockExpiresAt <= now
          THEN Outcome([ss EXCEPT ![id] = AvailableSeat], ClearSeatTimer(ts, seat),
                       408, "lock expired")
        ELSE IF seat.lockedBy # user THEN Outcome(ss, ts, 403, "locked by another user")
        ELSE Outcome([ss EXCEPT ![id] = [seat EXCEPT !.status = "booked",
                                                      !.timeoutId = NoTimer]],
                     ClearSeatTimer(ts, seat), 200, "booked successfully")

\* POST /confirm/:id with the owner test ahead of the expiry test.
ConfirmHandlerOwnerFirst(ss, ts, id, user, now) ==
  IF ~Exists(ss, id) THEN Outcome(ss, ts, 404, "does not exist")
  ELSE
    LET seat == ss[id]
    IN  IF seat.status # "locked" THEN Outcome(ss, ts, 400, "not locked")
        ELSE IF seat.lockedBy # user THEN Outcome(ss, ts, 403, "locked by another user")
        ELSE IF Truthy(seat.lockExpiresAt) /\ seat.lockExpiresAt <= now
          THEN Outcome([ss EXCEPT ![id] = AvailableSeat], ClearSeatTimer(ts, seat),
                       408, "lock expired")
        ELSE Outcome([ss EXCEPT ![id] = BookedSeat], ClearSeatTimer(ts, seat),
                     200, "booked successfully")

\* POST /confirm/:id
ConfirmHandler(ss, ts, id, user, now) ==
  IF ~Exists(ss, id) THEN Outcome(ss, ts, 404, "does not exist")
  ELSE
    LET seat == ss[id]
    IN  IF seat.status # "locked" THEN Outcome(ss, ts, 400, "not locked")
        ELSE IF Truthy(seat.lockExpiresAt) /\ seat.lockExpiresAt <= now
          THEN Outcome([ss EXCEPT ![id] = AvailableSeat], ClearSeatTimer(ts, seat),
                       408, "lock expired")
        ELSE IF seat.lockedBy # user THEN Outcome(ss, ts, 403, "locked by another user")
        ELSE Outcome([ss EXCEPT ![id] = BookedSeat], ClearSeatTimer(ts, seat),
                     200, "booked successfully")

\* POST /unlock/:id without the booked test of lines 132-134.
UnlockHandlerNoBookedTest(ss, ts, id) ==
  IF ~Exists(ss, id) THEN Outcome(ss, ts, 404, "does not exist")
  ELSE
    LET seat == ss[id]
    IN  IF seat.status = "available" THEN Outcome(ss, ts, 200, "already available")
        ELSE Outcome([ss EXCEPT ![id] = AvailableSeat], ClearSeatTimer(ts, seat),
                     200, "lock cleared")

\* POST /unlock/:id answering 400 for a seat that is not locked.
UnlockHandlerRejectsAvailable(ss, ts, id) ==
  IF ~Exists(ss, id) THEN Outcome(ss, ts, 404, "does not exist")
  ELSE
    LET seat == ss[id]
    IN  IF seat.status = "available" THEN Outcome(ss, ts, 400, "not locked")
        ELSE IF seat.status = "booked" THEN Outcome(ss, ts, 409, "cannot unlock")
        ELSE Outcome([ss EXCEPT ![id] = AvailableSeat], ClearSeatTimer(ts, seat),
                     200, "lock cleared")

\* POST /unlock/:id leaving the timer of the lock pending.
UnlockHandlerKeepsTimer(ss, ts, id) ==
  IF ~Exists(ss, id) THEN Outcome(ss, ts, 404, "does not exist")
  ELSE IF ss[id].status = "available" THEN Outcome(ss, ts, 200, "already available")
  ELSE IF ss[id].status = "booked" THEN Outcome(ss, ts, 409, "cannot unlock")
  ELSE Outcome([ss EXCEPT ![id] = AvailableSeat], ts, 200, "lock cleared")

\* POST /unlock/:id
UnlockHandler(ss, ts, id) ==
  IF ~Exists(ss, id) THEN Outcome(ss, ts, 404, "does not exist")
  ELSE
    LET seat == ss[id]
    IN  IF seat.status = "available" THEN Outcome(ss, ts, 200, "already available")
        ELSE IF seat.status = "booked" THEN Outcome(ss, ts, 409, "cannot unlock")
        ELSE Outcome([ss EXCEPT ![id] = AvailableSeat], ClearSeatTimer(ts, seat),
                     200, "lock cleared")

\* GET /seats sending the seat objects themselves.
SeatsViewWhole(ss) == ss

\* GET /seats: the public view.
SeatsView(ss) == [id \in DOMAIN ss |-> [status |-> ss[id].status]]

\* The callback armSeatExpiry hands to setTimeout, run at instant now.
\* The timer callback resetting the seat whatever it holds.
ExpiryCallbackUnconditional(ss, seatId, now) == [ss EXCEPT ![seatId] = AvailableSeat]

\* The timer callback without its reset of the seat.
ExpiryCallbackNoReclaim(ss, seatId, now) == ss

ExpiryCallback(ss, seatId, now) ==
  IF LockedAndExpired(ss[seatId], now)
    THEN [ss EXCEPT ![seatId] = AvailableSeat]
    ELSE ss

(* ------------------------- history variables -------------------------- *)
\* burst: the lock requests on seat burst.id, by distinct callers, handled
\* one after another at one instant, starting with the seat available
\* (lazy = FALSE) or locked and expired (lazy = TRUE); ok counts the 200s.
NoBurst == [id |-> 0, callers |-> {}, ok |-> 0, lazy |-> FALSE]

BurstNext(id, user, status) ==
  LET won == IF status = 200 THEN 1 ELSE 0
  IN  IF ~Exists(seats, id) THEN NoBurst
      ELSE IF burst.id = id /\ user \notin burst.callers
        THEN [burst EXCEPT !.callers = @ \cup {user}, !.ok = @ + won]
      ELSE IF seats[id].status = "available" \/ LockedAndExpired(seats[id], clock)
        THEN [id |-> id, callers |-> {user}, ok |-> won,
              lazy |-> seats[id].status = "locked"]
      ELSE NoBurst

\* The reference scenario, per seat: its requests in the order of their
\* instants, each with the status the scenario states for it.
Script ==
  << << [op |-> "lock",    user |-> "A", t |-> 0,            status |-> 200],
        [op |-> "confirm", user |-> "B", t |-> 100,          status |-> 403],
        [op |-> "confirm", user |-> "A", t |-> 59999,        status |-> 200] >>,
     << [op |-> "lock",    user |-> "C", t |-> 0,            status |-> 200],
        [op |-> "confirm", user |-> "C", t |-> 60001,        status |-> 408],
        [op |-> "lock",    user |-> "D", t |-> 60002,        status |-> 200] >> >>

ScriptSeats == 1..Len(Script)
ScriptRequests ==
  {[op |-> Script[i][k].op, id |-> i, user |-> Script[i][k].user] :
     i \in ScriptSeats, k \in 1..3}
\* The instants of the scenario, and one at which a timer armed at 0 is due.
ScriptInstants ==
  {Script[i][k].t : i \in ScriptSeats, k \in 1..3} \cup {LOCK_TTL + TimerBuffer}

ScOff == <<-1, -1>>

\* sc[i]: how many requests of Script[i] have been handled, as long as every
\* request handled so far was the next one of its seat's script, at its instant.
ScNext(op, id, user) ==
  IF /\ sc # ScOff
     /\ id \in ScriptSeats
     /\ sc[id] < Len(Script[id])
     /\ Script[id][sc[id] + 1].op = op
     /\ Script[id][sc[id] + 1].user = user
     /\ Script[id][sc[id] + 1].t = clock
    THEN [sc EXCEPT ![id] = @ + 1]
    ELSE ScOff

(* ------------------------------- steps -------------------------------- *)
\* What each step does to the program's state; the actions below add the
\* history variables.
TickStep(t) ==
  /\ t > clock
  /\ clock' = t
  /\ res' = NoRes
  /\ UNCHANGED <<seats, timers>>

GetSeatsStep ==
  /\ res' = [op |-> "list", id |-> 0, user |-> NoUser, status |-> 200,
             msg |-> "", view |-> SeatsView(seats)]
  /\ UNCHANGED <<seats, timers, clock>>

LockStep(id, q) ==
  LET out == LockHandler(seats, timers, id, UserOf(q), clock)
  IN  /\ seats' = out.seats
      /\ timers' = out.timers
      /\ res' = Response("lock", id, UserOf(q), out.status, out.msg)
      /\ UNCHANGED clock

ConfirmStep(id, q) ==
  LET out == ConfirmHandler(seats, timers, id, UserOf(q), clock)
  IN  /\ seats' = out.seats
      /\ timers' = out.timers
      /\ res' = Response("confirm", id, UserOf(q), out.status, out.msg)
      /\ UNCHANGED clock

UnlockStep(id) ==
  LET out == UnlockHandler(seats, timers, id)
  IN  /\ seats' = out.seats
      /\ timers' = out.timers
      /\ res' = Response("unlock", id, NoUser, out.status, out.msg)
      /\ UNCHANGED clock

\* A pending timer whose delay has elapsed runs its callback.
TimerFireStep(t) ==
  /\ t \in timers
  /\ clock >= t.due
  /\ timers' = timers \ {t}
  /\ seats' = ExpiryCallback(seats, t.seatId, clock)
  /\ res' = Response("expire", t.seatId,
                     IF seats'[t.seatId] # seats[t.seatId]
                       THEN seats[t.seatId].lockedBy ELSE NoUser,
                     0, "")
  /\ UNCHANGED clock

(* ------------------------------ actions ------------------------------- *)
Init ==
  /\ seats = [id \in SeatIds |-> AvailableSeat]
  /\ timers = {}
  /\ clock = 0
  /\ res = NoRes
  /\ burst = NoBurst
  /\ sc = <<0, 0>>
  /\ lastExpiry = [id \in SeatIds |-> Undefined]

Tick(t) == TickStep(t) /\ burst' = NoBurst /\ UNCHANGED <<sc, lastExpiry>>

GetSeats == GetSeatsStep /\ UNCHANGED <<burst, sc, lastExpiry>>

Lock(id, q) ==
  /\ LockStep(id, q)
  /\ burst' = BurstNext(id, UserOf(q), res'.status)
  /\ UNCHANGED <<sc, lastExpiry>>

Confirm(id, q) ==
  ConfirmStep(id, q) /\ burst' = NoBurst /\ UNCHANGED <<sc, lastExpiry>>

Unlock(id) ==
  UnlockStep(id) /\ burst' = NoBurst /\ UNCHANGED <<sc, lastExpiry>>

TimerFire(t) == TimerFireStep(t) /\ UNCHANGED <<burst, sc, lastExpiry>>

Next ==
  \/ \E t \in Instants : Tick(t)
  \/ GetSeats
  \/ \E id \in ReqIds, q \in QueryUsers : Lock(id, q)
  \/ \E id \in ReqIds, q \in QueryUsers : Confirm(id, q)
  \/ \E id \in ReqIds : Unlock(id)
  \/ \E t \in timers : TimerFire(t)

Spec == Init /\ [][Next]_vars

\* Lock races: only lock and unlock requests, by three distinct callers.
NextRace ==
  \/ \E t \in Instants : Tick(t)
  \/ \E id \in ReqIds, q \in RaceQueryUsers : Lock(id, q)
  \/ \E id \in ReqIds : Unlock(id)
  \/ \E t \in timers : TimerFire(t)

SpecRace == Init /\ [][NextRace]_vars

\* The reference scenario: its requests, in any order and at any of its
\* instants; sc follows the runs that issue them as the scenario does.
ScTick(t) == TickStep(t) /\ UNCHANGED <<burst, sc, lastExpiry>>

ScRequest(r) ==
  /\ \/ r.op = "lock" /\ LockStep(r.id, r.user)
     \/ r.op = "confirm" /\ ConfirmStep(r.id, r.user)
  /\ sc' = ScNext(r.op, r.id, r.user)
  /\ UNCHANGED <<burst, lastExpiry>>

ScTimerFire(t) == TimerFireStep(t) /\ UNCHANGED <<burst, sc, lastExpiry>>

NextScenario ==
  \/ \E t \in ScriptInstants : ScTick(t)
  \/ \E r \in ScriptRequests : ScRequest(r)
  \/ \E t \in timers : ScTimerFire(t)

SpecScenario == Init /\ [][NextScenario]_vars

\* Lock epochs: the requests of one caller, with lastExpiry keeping for each
\* seat the lockExpiresAt its latest successful lock set.
EpTick(t) == TickStep(t) /\ UNCHANGED <<burst, sc, lastExpiry>>

EpLock(id) ==
  /\ LockStep(id, "A")
  /\ lastExpiry' = IF res'.status = 200
                     THEN [lastExpiry EXCEPT ![id] = seats'[id].lockExpiresAt]
                     ELSE lastExpiry
  /\ UNCHANGED <<burst, sc>>

EpConfirm(id) == ConfirmStep(id, "A") /\ UNCHANGED <<burst, sc, lastExpiry>>

EpUnlock(id) == UnlockStep(id) /\ UNCHANGED <<burst, sc, lastExpiry>>

EpTimerFire(t) == TimerFireStep(t) /\ UNCHANGED <<burst, sc, lastExpiry>>

NextEpoch ==
  \/ \E t \in Instants : EpTick(t)
  \/ \E id \in ReqIds : EpLock(id)
  \/ \E id \in ReqIds : EpConfirm(id)
  \/ \E id \in ReqIds : EpUnlock(id)
  \/ \E t \in timers : EpTimerFire(t)

SpecEpoch == Init /\ [][NextEpoch]_vars

\* The same steps with the clock running on past the last request instant to
\* the due time of every pending timer, and the event loop's guarantees: time
\* passes, and a timer that is due has its callback run.  Lock requests stop
\* at Horizon, which bounds the clock.
Horizon == InstantAt(MaxTicks)

LiveInstants == Instants \cup {t.due : t \in timers}

LvLock(id) ==
  /\ clock <= Horizon
  /\ LockStep(id, "A")
  /\ UNCHANGED <<burst, sc, lastExpiry>>

NextLive ==
  \/ \E t \in LiveInstants : EpTick(t)
  \/ \E id \in ReqIds : LvLock(id)
  \/ \E id \in ReqIds : EpConfirm(id)
  \/ \E id \in ReqIds : EpUnlock(id)
  \/ \E t \in timers : EpTimerFire(t)

Fairness ==
  /\ WF_vars(\E t \in LiveInstants : EpTick(t))
  /\ \A id \in SeatIds : WF_vars(\E t \in timers : t.seatId = id /\ EpTimerFire(t))

SpecLive == Init /\ [][NextLive]_vars /\ Fairness

(* ------------------------------- claims ------------------------------- *)
\* C1. Mutual exclusion of lock: of the lock requests on one seat, by
\* distinct callers, handled at one instant starting with the seat available
\* or locked and expired, exactly one is answered 200, the first, and every
\* other one is answered 423 or 409.
C1_MutualExclusion ==
  burst.id # 0 =>
    /\ burst.ok = 1
    /\ res.op = "lock" =>
         IF Cardinality(burst.callers) = 1
           THEN res.status = 200
           ELSE res.status \in {423, 409}

\* Three callers have raced for a seat whose lock had expired; the last lost.
C1_Witness ==
  /\ burst.id # 0
  /\ burst.lazy
  /\ Cardinality(burst.callers) = 3
  /\ res.op = "lock" /\ res.status = 423

\* C2. Booked immutability: no step changes a booked seat; a lock request on
\* it is answered 409 and so is an unlock request, at every later instant.
C2_BookedImmutable ==
  [][\A id \in SeatIds :
       seats[id].status = "booked" =>
         /\ seats'[id] = seats[id]
         /\ res'.op = "lock" /\ res'.id = id => res'.status = 409
         /\ res'.op = "unlock" /\ res'.id = id => res'.status = 409]_vars

\* A booked seat has just refused an unlock, after the lock's timer was due.
C2_Witness ==
  \E id \in SeatIds :
    /\ seats[id].status = "booked"
    /\ res.op = "unlock" /\ res.id = id /\ res.status = 409
    /\ clock >= LOCK_TTL + TimerBuffer

\* C3. A seat becomes booked only by a confirm request answered 200, made
\* while the seat is locked, by the user in lockedBy, at an instant before
\* lockExpiresAt.
C3_BookedOnlyByOwnerConfirm ==
  [][\A id \in SeatIds :
       seats'[id].status = "booked" /\ seats[id].status # "booked" =>
         /\ seats[id].status = "locked"
         /\ clock < seats[id].lockExpiresAt
         /\ res'.op = "confirm" /\ res'.id = id /\ res'.status = 200
         /\ res'.user = seats[id].lockedBy]_vars

\* A confirm has just booked a seat while the other seat is locked.
C3_Witness ==
  \E id \in SeatIds :
    /\ seats[id].status = "booked"
    /\ res.op = "confirm" /\ res.id = id /\ res.status = 200
    /\ \E other \in SeatIds : seats[other].status = "locked"

\* C4. No premature expiry: while a seat is locked and the instant reached is
\* before lockExpiresAt, an unlock aside, the holder's confirm is answered 200
\* and books the seat, every other step (other callers' requests, time
\* passing, timers) leaves the seat as it is, and no expiry callback runs
\* for the seat.
C4_NoPrematureExpiry ==
  [][\A id \in SeatIds :
       seats[id].status = "locked" /\ clock' < seats[id].lockExpiresAt =>
         /\ ~(res'.op = "expire" /\ res'.id = id)
         /\ IF res'.op = "unlock" /\ res'.id = id THEN TRUE
            ELSE IF /\ res'.op = "confirm" /\ res'.id = id
                    /\ res'.user = seats[id].lockedBy
              THEN res'.status = 200 /\ seats'[id].status = "booked"
            ELSE seats'[id] = seats[id]]_vars

\* At the last instant before its expiry a lock taken earlier is intact and
\* has just turned away another caller's lock request.
C4_Witness ==
  \E id \in SeatIds :
    /\ seats[id].status = "locked"
    /\ clock = seats[id].lockExpiresAt - 1
    /\ res.op = "lock" /\ res.id = id /\ res.status = 423
    /\ res.user # seats[id].lockedBy

\* The user whose lock on seat id has lapsed with no request on the seat
\* since: the seat is still locked past lockExpiresAt (the timer has not
\* fired), or the expiry callback has just reclaimed it (res.user).
LapsedHolder(id) ==
  IF LockedAndExpired(seats[id], clock) THEN seats[id].lockedBy
  ELSE IF res.op = "expire" /\ res.id = id /\ seats[id].status = "available"
    THEN res.user
  ELSE NoUser

\* C5 as stated. Expiry enforced: once a lock has lapsed, unconfirmed and
\* unreleased, the holder's confirm is answered 408 and a lock request is
\* answered 200, whether or not the expiry timer has fired.
C5_AsStated ==
  [][\A id \in SeatIds :
       LapsedHolder(id) # NoUser =>
         /\ res'.op = "confirm" /\ res'.id = id /\ res'.user = LapsedHolder(id)
              => res'.status = 408
         /\ res'.op = "lock" /\ res'.id = id => res'.status = 200]_vars

\* C5, amended. Once a lock has lapsed, unconfirmed and unreleased, the
\* holder's confirm fails and leaves the seat available with no timer: with
\* 408 while the seat is still locked (the timer has not fired), with 400
\* once the expiry callback has reclaimed the seat.  A lock request on the
\* lapsed seat, or on the seat left available, is answered 200 and locks the
\* seat for its caller until now + LOCK_TTL.
C5_ExpiryEnforced ==
  [][\A id \in SeatIds :
       /\ LapsedHolder(id) # NoUser =>
            (res'.op = "confirm" /\ res'.id = id /\ res'.user = LapsedHolder(id)
               => /\ res'.status = IF seats[id].status = "locked" THEN 408 ELSE 400
                  /\ seats'[id] = AvailableSeat
                  /\ \A t \in timers' : t.seatId # id)
       /\ LapsedHolder(id) # NoUser \/ seats[id].status = "available" =>
            (res'.op = "lock" /\ res'.id = id
               => /\ res'.status = 200
                  /\ seats'[id].status = "locked"
                  /\ seats'[id].lockedBy = res'.user
                  /\ seats'[id].lockExpiresAt = clock + LOCK_TTL)]_vars

\* A confirm has been answered 408 at an instant at which the lock's timer
\* was already due but had not fired.
C5_Witness ==
  /\ res.op = "confirm" /\ res.status = 408
  /\ seats[res.id] = AvailableSeat
  /\ clock >= LOCK_TTL + TimerBuffer

\* C6. Owner isolation: while a seat is locked and not expired, a confirm by
\* any other user is answered 403 and changes neither the store (status,
\* lockedBy, lockExpiresAt, timeoutId of every seat) nor the pending timers.
C6_OwnerIsolation ==
  [][\A id \in SeatIds :
       /\ seats[id].status = "locked" /\ clock < seats[id].lockExpiresAt
       /\ res'.op = "confirm" /\ res'.id = id /\ res'.user # seats[id].lockedBy
       => /\ res'.status = 403
          /\ seats' = seats
          /\ timers' = timers]_vars

\* A confirm by another user has just been answered 403; the seat is locked
\* and its timer is pending.
C6_Witness ==
  \E id \in SeatIds :
    /\ res.op = "confirm" /\ res.id = id /\ res.status = 403
    /\ seats[id].status = "locked" /\ res.user # seats[id].lockedBy
    /\ \E t \in timers : t.id = seats[id].timeoutId /\ t.seatId = id

\* C7. Idempotent release: unlock of an available seat is answered 200 and
\* changes nothing, the seat being available with no owner, no expiry and no
\* timer; and for every seat that is not booked, a second unlock right after
\* a first is answered 200 like the first and leaves the state the first left.
C7_IdempotentRelease ==
  [][\A id \in SeatIds :
       /\ seats[id].status = "available" /\ res'.op = "unlock" /\ res'.id = id
            => /\ res'.status = 200
               /\ seats' = seats /\ timers' = timers
               /\ seats'[id] = AvailableSeat
               /\ \A t \in timers' : t.seatId # id
       /\ seats[id].status # "booked"
            => LET once  == UnlockHandler(seats, timers, id)
                   twice == UnlockHandler(once.seats, once.timers, id)
               IN  /\ once.status = 200 /\ twice.status = 200
                   /\ twice.seats = once.seats
                   /\ twice.timers = once.timers]_vars

\* An unlock has just found its seat already available.
C7_Witness ==
  /\ res.op = "unlock" /\ res.status = 200 /\ res.msg = "already available"
  /\ seats[res.id] = AvailableSeat

\* C8. Reference scenario (LOCK_TTL = 60000, all seats available at first):
\* in every run that issues the scenario's requests as the scenario does,
\* each request is answered with the status the scenario states; the lock of
\* seat 1 at 0 sets lockExpiresAt = 60000, seat 1 ends booked, seat 2 is
\* available after the confirm answered 408 and locked by D at the end.
C8_ReferenceScenario ==
  sc # ScOff =>
    /\ LOCK_TTL = 60000
    /\ \A i \in ScriptSeats :
         /\ res.op \in {"lock", "confirm"} /\ res.id = i =>
              /\ sc[i] >= 1
              /\ res.op = Script[i][sc[i]].op
              /\ res.user = Script[i][sc[i]].user
              /\ res.status = Script[i][sc[i]].status
         /\ sc[i] >= 1 /\ clock < 60000 /\ seats[i].status = "locked" =>
              seats[i].lockExpiresAt = 60000
    /\ sc[1] \in {1, 2} /\ clock < 60000 =>
         seats[1].status = "locked" /\ seats[1].lockedBy = "A"
    /\ sc[1] = 3 => seats[1].status = "booked"
    /\ sc[2] = 2 /\ res.op = "confirm" /\ res.id = 2 => seats[2].status = "available"
    /\ sc[2] = 3 =>
         /\ seats[2].status = "locked" /\ seats[2].lockedBy = "D"
         /\ seats[2].lockExpiresAt = 120002

\* The scenario has been run to its end.
C8_Witness == sc = <<3, 3>>

\* C9. GET /seats is side-effect free and hides internals: it is answered 200
\* with, for exactly the seat ids of the store, an object holding the seat's
\* status and nothing else, and it changes neither the store nor the timers.
C9_ListSeats ==
  [][res'.op = "list" =>
       /\ res'.status = 200
       /\ DOMAIN res'.view = SeatIds
       /\ \A id \in SeatIds :
            /\ DOMAIN res'.view[id] = {"status"}
            /\ res'.view[id].status = seats[id].status
       /\ seats' = seats
       /\ timers' = timers
       /\ clock' = clock]_vars

\* The seats were listed while one was locked, its timer pending, and shown
\* as locked.
C9_Witness ==
  /\ res.op = "list"
  /\ \E id \in SeatIds :
       /\ seats[id].status = "locked" /\ res.view[id].status = "locked"
       /\ \E t \in timers : t.id = seats[id].timeoutId

\* C10. Data-model invariant: every seat's status is available, locked or
\* booked; a locked seat has lockedBy and lockExpiresAt set, and any other
\* seat has neither.
C10_DataModel ==
  \A id \in SeatIds :
    /\ seats[id].status \in {"available", "locked", "booked"}
    /\ IF seats[id].status = "locked"
         THEN seats[id].lockedBy # NoUser /\ seats[id].lockExpiresAt # Undefined
         ELSE seats[id].lockedBy = NoUser /\ seats[id].lockExpiresAt = Undefined

\* An unlock has just cleared the lock of one seat while another is booked.
C10_Witness ==
  /\ res.op = "unlock" /\ res.msg = "lock cleared"
  /\ seats[res.id].status = "available"
  /\ \E id \in SeatIds : seats[id].status = "booked"

\* C11 as stated. Monotonic lock epoch: the lockExpiresAt a successful lock
\* sets is strictly greater than the one the previous successful lock on the
\* seat set.
C11_MonotonicEpoch ==
  [][\A id \in SeatIds :
       /\ res'.op = "lock" /\ res'.id = id /\ res'.status = 200
       /\ lastExpiry[id] # Undefined
       => seats'[id].lockExpiresAt > lastExpiry[id]]_vars

\* The pending timers of seat id.
TimersOf(ts, id) == {t \in ts : t.seatId = id}

\* C12. Unknown seat: a lock, confirm or unlock request for an id the store
\* has no seat for is answered 404, adds no seat to the store and changes no
\* seat and no timer.
C12_UnknownSeat ==
  [][res'.op \in {"lock", "confirm", "unlock"} /\ res'.id \notin SeatIds =>
       /\ res'.status = 404
       /\ DOMAIN seats' = SeatIds
       /\ seats' = seats
       /\ timers' = timers]_vars

\* A confirm for an unknown seat has been answered 404 while a seat is
\* locked with its timer pending.
C12_Witness ==
  /\ res.op = "confirm" /\ res.id \notin SeatIds /\ res.status = 404
  /\ \E id \in SeatIds :
       seats[id].status = "locked" /\ TimersOf(timers, id) # {}

\* C13. Confirm outcome precedence: 400 if the seat is not locked, nothing
\* changed; else 408 if lockExpiresAt <= now, whoever the caller, the seat
\* reset to available and its timer cancelled; else 403 if the caller is not
\* lockedBy, nothing changed; else 200, the seat booked with lockedBy,
\* lockExpiresAt and timeoutId cleared and its timer cancelled.
C13_ConfirmPrecedence ==
  [][\A id \in SeatIds :
       res'.op = "confirm" /\ res'.id = id =>
         IF seats[id].status # "locked"
           THEN res'.status = 400 /\ seats' = seats /\ timers' = timers
         ELSE IF seats[id].lockExpiresAt <= clock
           THEN /\ res'.status = 408
                /\ seats'[id] = AvailableSeat
                /\ TimersOf(timers', id) = {}
         ELSE IF seats[id].lockedBy # res'.user
           THEN res'.status = 403 /\ seats' = seats /\ timers' = timers
         ELSE /\ res'.status = 200
              /\ seats'[id] = BookedSeat
              /\ TimersOf(timers', id) = {}]_vars

\* A confirm at the very instant lockExpiresAt has been answered 408; the
\* seat is available and its timer, not yet due, is gone.
C13_Witness ==
  /\ res.op = "confirm" /\ res.status = 408
  /\ clock = LOCK_TTL
  /\ seats[res.id] = AvailableSeat
  /\ TimersOf(timers, res.id) = {}

\* C14. Lock outcomes: 409 on a booked seat and 423 on a seat locked with
\* lockExpiresAt > now, both changing nothing, the caller being the holder
\* or not; otherwise 200, the seat locked by the caller until now + LOCK_TTL
\* with exactly one pending timer, the one it holds, due LOCK_TTL + 50 later,
\* and the timers of the other seats untouched.
C14_LockOutcomes ==
  [][\A id \in SeatIds :
       res'.op = "lock" /\ res'.id = id =>
         IF seats[id].status = "booked"
           THEN res'.status = 409 /\ seats' = seats /\ timers' = timers
         ELSE IF seats[id].status = "locked" /\ seats[id].lockExpiresAt > clock
           THEN res'.status = 423 /\ seats' = seats /\ timers' = timers
         ELSE /\ res'.status = 200
              /\ seats'[id].status = "locked"
              /\ seats'[id].lockedBy = res'.user
              /\ seats'[id].lockExpiresAt = clock + LOCK_TTL
              /\ TimersOf(timers', id) =
                   {[id |-> seats'[id].timeoutId, seatId |-> id,
                     due |-> clock + LOCK_TTL + TimerBuffer]}
              /\ \A other \in SeatIds \ {id} :
                   /\ seats'[other] = seats[other]
                   /\ TimersOf(timers', other) = TimersOf(timers, other)]_vars

\* The holder of a lock taken earlier has just asked for it again and been
\* answered 423; the expiry is the one set at first.
C14_Witness ==
  \E id \in SeatIds :
    /\ res.op = "lock" /\ res.id = id /\ res.status = 423
    /\ seats[id].status = "locked" /\ res.user = seats[id].lockedBy
    /\ seats[id].lockExpiresAt < clock + LOCK_TTL

\* C15 as stated. Lazy expiry everywhere: from a state where seat id is locked
\* with lockExpiresAt <= now, GET /seats does not list it as locked, lock
\* succeeds, confirm answers 408 and unlock leaves it available.
C15_LazyExpiryEverywhere ==
  [][\A id \in SeatIds :
       LockedAndExpired(seats[id], clock) =>
         /\ res'.op = "list" => res'.view[id].status # "locked"
         /\ res'.op = "lock" /\ res'.id = id => res'.status = 200
         /\ res'.op = "confirm" /\ res'.id = id =>
              res'.status = 408 /\ seats'[id] = AvailableSeat
         /\ res'.op = "unlock" /\ res'.id = id =>
              res'.status = 200 /\ seats'[id] = AvailableSeat]_vars

\* The callback of timer t ran in this step and changed its seat.
Evicted(t) ==
  /\ res'.op = "expire" /\ res'.id = t.seatId
  /\ t \notin timers'
  /\ seats'[t.seatId] # seats[t.seatId]

\* C16. Stale timer never evicts a newer lock: a timer callback that changes
\* a seat is the one armed by the acquisition that holds the seat at that
\* moment (the handle the seat stores, due 50 ms after its lockExpiresAt)
\* and it leaves the seat available; a callback armed by an acquisition that
\* has ended changes nothing.
C16_NoStaleEviction ==
  [][\A t \in timers :
       Evicted(t) =>
         /\ seats[t.seatId].status = "locked"
         /\ seats[t.seatId].timeoutId = t.id
         /\ t.due = seats[t.seatId].lockExpiresAt + TimerBuffer
         /\ seats'[t.seatId] = AvailableSeat]_vars

\* A seat whose first lock lapsed has been locked again, and the new lock
\* is held, with its own timer only, at an instant at which the timer of
\* the first lock would have been due.
C16_Witness ==
  /\ burst.lazy
  /\ seats[burst.id].status = "locked"
  /\ seats[burst.id].lockExpiresAt > clock
  /\ clock >= LOCK_TTL + TimerBuffer
  /\ \A t \in TimersOf(timers, burst.id) : t.id = seats[burst.id].timeoutId

\* C17. Timer bookkeeping: a seat has at most one pending timer and has one
\* only while it is locked; every step that takes a seat out of locked, or
\* replaces a lapsed lock by a new one, removes the timer of the lock that
\* ended in that same step.
C17_TimerBookkeeping ==
  [][\A id \in SeatIds :
       /\ Cardinality(TimersOf(timers', id)) <= 1
       /\ TimersOf(timers', id) # {} => seats'[id].status = "locked"
       /\ seats[id].status = "locked" /\ seats'[id] # seats[id] =>
            TimersOf(timers, id) \cap TimersOf(timers', id) = {}]_vars

\* An unlock has just cleared a lock and the seat has no pending timer,
\* while another seat is locked with its one timer pending.
C17_Witness ==
  /\ res.op = "unlock" /\ res.msg = "lock cleared"
  /\ TimersOf(timers, res.id) = {}
  /\ \E other \in SeatIds \ {res.id} :
       seats[other].status = "locked" /\ Cardinality(TimersOf(timers, other)) = 1

\* C18. Abandoned locks are reclaimed: when time passes and due timers have
\* their callbacks run, no seat stays locked forever, whether or not any
\* request for it is ever made again.
C18_EventuallyReclaimed ==
  \A id \in SeatIds : (seats[id].status = "locked") ~> (seats[id].status # "locked")

\* A timer callback has just taken a lapsed lock off its seat.
C18_Witness ==
  /\ res.op = "expire" /\ res.user # NoUser
  /\ seats[res.id] = AvailableSeat
  /\ clock >= LOCK_TTL + TimerBuffer

\* C19. Timer against confirm: each is one step.  The callback, run on a
\* seat that is available or booked, changes nothing; once a callback has
\* reclaimed a seat, a confirm for it is answered 400 and the seat stays
\* available; a confirm that wins books the seat and takes its timer away,
\* so that no callback can follow; a confirm on a lapsed lock whose timer
\* has not run yet is answered 408 and leaves the seat available.
C19_TimerConfirmRace ==
  [][\A id \in SeatIds :
       /\ seats[id].status \in {"available", "booked"} =>
            /\ ExpiryCallback(seats, id, clock) = seats
            /\ res'.op = "expire" /\ res'.id = id => seats' = seats
       /\ res.op = "expire" /\ res.id = id /\ res.user # NoUser
          /\ res'.op = "confirm" /\ res'.id = id =>
            res'.status = 400 /\ seats'[id] = AvailableSeat
       /\ res'.op = "confirm" /\ res'.id = id /\ res'.status = 200 =>
            /\ seats'[id] = BookedSeat
            /\ TimersOf(timers', id) = {}
            /\ ExpiryCallback(seats', id, clock') = seats'
       /\ res'.op = "confirm" /\ res'.id = id /\ LockedAndExpired(seats[id], clock) =>
            res'.status = 408 /\ seats'[id] = AvailableSeat]_vars

\* Both ends of the race side by side: a callback has just reclaimed one
\* seat while another seat, confirmed in time, is booked.
C19_Witness ==
  /\ res.op = "expire" /\ res.user # NoUser
  /\ seats[res.id] = AvailableSeat
  /\ \E other \in SeatIds \ {res.id} : seats[other] = BookedSeat

\* The request or callback of this step that concerns seat id.
StepOn(id, ops, statuses) ==
  res'.id = id /\ res'.op \in ops /\ res'.status \in statuses

\* C20. Per-seat transitions: every seat starts available; its status goes
\* from available to locked by a successful lock only, from locked to
\* booked by a successful confirm only, from locked to available by an
\* expired confirm, a timer callback or an unlock only, and nowhere from
\* booked; a step on one seat leaves every other seat and its timer as they
\* were.
C20_Transitions ==
  /\ \A id \in SeatIds : seats[id] = AvailableSeat
  /\ [][\A id \in SeatIds :
          LET from == seats[id].status
              to   == seats'[id].status
          IN  /\ from # to =>
                   \/ from = "available" /\ to = "locked" /\ StepOn(id, {"lock"}, {200})
                   \/ from = "locked" /\ to = "booked" /\ StepOn(id, {"confirm"}, {200})
                   \/ /\ from = "locked" /\ to = "available"
                      /\ \/ StepOn(id, {"confirm"}, {408})
                         \/ StepOn(id, {"expire"}, {0})
                         \/ StepOn(id, {"unlock"}, {200})
              /\ res'.id # id =>
                   /\ seats'[id] = seats[id]
                   /\ TimersOf(timers', id) = TimersOf(timers, id)]_vars

\* A seat has been locked anew, after an earlier lock on it ran out, while
\* another seat is booked.
C20_Witness ==
  /\ res.op = "lock" /\ res.status = 200
  /\ burst.lazy
  /\ seats[res.id].status = "locked"
  /\ \E other \in SeatIds \ {res.id} : seats[other] = BookedSeat

====
